---- MODULE Spec2Model ----
(***************************************************************************)
(* Medora Clinical Summary API (backend/main.py).                          *)
(*                                                                         *)
(* The service is a set of FastAPI handlers over one datastore table       *)
(* (clinical_summaries) and one object-storage bucket.  Every handler runs *)
(* to completion once it has its arguments (the datastore and storage      *)
(* calls are synchronous), so each request is one action.  The state holds *)
(* the table, the bucket, and the request being answered with its response *)
(* and the upstream calls it made, until the response is delivered.        *)
(***************************************************************************)
EXTENDS Integers, Sequences, FiniteSets, TLC

VARIABLES
    table,      \* clinical_summaries: sequence of rows, in insertion order
    storage,    \* the bucket: set of object keys that were uploaded
    req,        \* the request just handled, as the client sent it
    resp,       \* the response to it
    calls,      \* the upstream calls that request made, in order
    evaluated,  \* the validation rules that create evaluated, in order
    returned    \* summary_id -> body of the 201 response that announced it

vars == <<table, storage, req, resp, calls, evaluated, returned>>

----------------------------------------------------------------------------
(* Bounds of the model *)

\* rows the table may hold (and objects the bucket may hold)
MaxRows == 2
\* instants the datastore clock may show: 0 .. MaxTime
MaxTime == 2

(* Program constants *)

HTTP_200 == 200
HTTP_201 == 201
HTTP_400 == 400
HTTP_404 == 404
HTTP_500 == 500
\* FastAPI's answer to a parameter that fails its declared validation
HTTP_422 == 422
LimitMin == 1
LimitMax == 1000
LimitDefault == 100
\* instants per calendar day (datetime.min.time() .. datetime.max.time())
TicksPerDay == 2

SUPABASE_STORAGE_BUCKET == "clinical-notes"

\* Python's None
NONE == "<None>"

----------------------------------------------------------------------------
(* Python helpers *)

\* bool(s) of an Optional[str]
Truthy(s) == s # NONE /\ s # ""

\* the strings of the model that consist of whitespace only
Whitespace == {"", " "}

\* s.strip(): no other string of the model has leading or trailing blanks
Strip(s) == IF s \in Whitespace THEN "" ELSE s

\* s.endswith(suffix), on strings given as sequences of characters
EndsWith(s, suffix) ==
    /\ Len(s) >= Len(suffix)
    /\ SubSeq(s, Len(s) - Len(suffix) + 1, Len(s)) = suffix

DotPdf == <<".", "p", "d", "f">>

\* "".join(chars)
RECURSIVE Join(_)
Join(chars) == IF chars = <<>> THEN "" ELSE Head(chars) \o Join(Tail(chars))

\* Path(filename).suffix: from the last dot on, unless the name starts with
\* that dot or ends with it
PathSuffix(filename) ==
    LET dots == {i \in 1..Len(filename) : filename[i] = "."}
        last == CHOOSE i \in dots : \A j \in dots : j <= i
    IN  IF dots = {} THEN <<>>
        ELSE IF last = 1 \/ last = Len(filename) THEN <<>>
        ELSE SubSeq(filename, last, Len(filename))

----------------------------------------------------------------------------
(* json.loads on a token stream.  Tokens: "[" "]" "{" "}" "," ; the string  *)
(* literals "A" and "B"; "null"; anything else is not JSON.                *)

JsonStrings == {"A", "B"}
JsonScalars == JsonStrings \cup {"null"}

\* the Python value of a scalar token
JsonValue(tok) == IF tok = "null" THEN NONE ELSE tok

\* value (, value)*
RECURSIVE JsonElements(_)
JsonElements(toks) ==
    IF toks = <<>> THEN [ok |-> FALSE, items |-> <<>>]
    ELSE IF Head(toks) \notin JsonScalars THEN [ok |-> FALSE, items |-> <<>>]
    ELSE IF Len(toks) = 1 THEN [ok |-> TRUE, items |-> <<JsonValue(toks[1])>>]
    ELSE IF toks[2] # "," THEN [ok |-> FALSE, items |-> <<>>]
    ELSE LET rest == JsonElements(SubSeq(toks, 3, Len(toks)))
         IN  [ok |-> rest.ok,
              items |-> IF rest.ok THEN <<JsonValue(toks[1])>> \o rest.items ELSE <<>>]

\* json.loads(s): kind "error" stands for json.JSONDecodeError
JsonLoads(toks) ==
    IF toks = <<"[", "]">> THEN [kind |-> "list", items |-> <<>>]
    ELSE IF toks = <<"{", "}">> THEN [kind |-> "dict", items |-> <<>>]
    ELSE IF Len(toks) = 1 /\ toks[1] \in JsonScalars
         THEN [kind |-> "scalar", items |-> <<>>]
    ELSE IF Len(toks) >= 3 /\ Head(toks) = "[" /\ toks[Len(toks)] = "]"
         THEN LET e == JsonElements(SubSeq(toks, 2, Len(toks) - 1))
              IN  IF e.ok THEN [kind |-> "list", items |-> e.items]
                  ELSE [kind |-> "error", items |-> <<>>]
    ELSE [kind |-> "error", items |-> <<>>]

----------------------------------------------------------------------------
(* The datastore (table clinical_summaries) and the bucket, as the client  *)
(* library shows them to the handlers.                                     *)

\* a timestamptz as the datastore returns it: the instant and the offset text
DbTimestamp(t) == [instant |-> t, offset |-> "+00:00"]

\* the instants of the rows of tbl
RowTimes(tbl) == {tbl[i].created_at.instant : i \in 1..Len(tbl)}

\* NOW() never runs backwards: the instants a new row of tbl may get
NowChoices(tbl) ==
    {t \in 0..MaxTime : \A u \in RowTimes(tbl) : u <= t}

\* an insert that replaces the table by the new row
DbInsertReplace(tbl, data, now) ==
    LET row == [summary_id |-> ToString(Len(tbl) + 1),
                created_at |-> DbTimestamp(now)] @@ data
    IN  [table |-> <<row>>, data |-> <<row>>]

\* insert(data).execute(): the datastore adds summary_id (a fresh key) and
\* created_at (DEFAULT NOW()) and returns the stored row
DbInsert(tbl, data, now) ==
    LET row == [summary_id |-> ToString(Len(tbl) + 1),
                created_at |-> DbTimestamp(now)] @@ data
    IN  [table |-> Append(tbl, row), data |-> <<row>>]

\* select(...).eq(column, value): the matching rows, in table order
DbSelectEq(tbl, column, value) ==
    SelectSeq(tbl, LAMBDA r : r[column] = value)

\* .single().execute(): exactly one row, or the library raises APIError
\* (the datastore answers 406, "JSON object requested, multiple (or no) rows
\* returned")
DbSingle(rows) ==
    IF Len(rows) = 1 THEN [raised |-> FALSE, data |-> rows]
    ELSE [raised |-> TRUE, data |-> <<>>]

\* the key upload_pdf_to_supabase builds: patient_id/uuid4 + extension
ObjectKey(patient_id, uuid, filename) ==
    LET suffix == PathSuffix(filename)
        file_extension == IF suffix = <<>> THEN DotPdf ELSE suffix
    IN  patient_id \o "/" \o uuid \o Join(file_extension)

\* uuid.uuid4(): a value no earlier upload used
FreshUuid(sto) == ToString(Cardinality(sto) + 1)

\* get_public_url(key)
PublicUrl(key) == "public/" \o SUPABASE_STORAGE_BUCKET \o "/" \o key

\* upload_pdf_to_supabase(file, patient_id); ok = FALSE: the storage call raised
upload_pdf_to_supabase(sto, file, patient_id, ok) ==
    LET key == ObjectKey(patient_id, FreshUuid(sto), file.filename)
    IN  IF ok
        THEN [raised |-> FALSE, storage |-> sto \cup {key}, url |-> PublicUrl(key),
              detail |-> ""]
        ELSE [raised |-> TRUE, storage |-> sto, url |-> NONE,
              detail |-> "Failed to upload PDF: storage error"]

\* determine_notes_type without its last branch
determine_notes_type_NoNone(raw_notes_text, raw_notes_file) ==
    IF raw_notes_file.present THEN "pdf" ELSE "text"

determine_notes_type(raw_notes_text, raw_notes_file) ==
    IF raw_notes_file.present THEN "pdf"
    ELSE IF Truthy(raw_notes_text) THEN "text"
    ELSE "none"

\* parse_supabase_datetime: an aware datetime (instant, utcoffset)
parse_supabase_datetime(ts) ==
    IF ts.offset = "Z" THEN [instant |-> ts.instant, utcoffset |-> 0]
    ELSE IF ts.offset = "+00:00" THEN [instant |-> ts.instant, utcoffset |-> 0]
    ELSE [instant |-> ts.instant, utcoffset |-> 0]

\* isinstance(x, str) for the items of a parsed JSON list
IsStr(x) == x # NONE

\* SummaryResponse with the isinstance test of diagnoses inverted
SummaryResponseNoDiagnoses(row) ==
    [valid |-> TRUE,
     body |-> [summary_id |-> row.summary_id,
               patient_id |-> row.patient_id,
               patient_name |-> row.patient_name,
               summary_text |-> row.summary_text,
               diagnoses |-> <<>>,
               affected_system |-> row.affected_system,
               affected_organ |-> row.affected_organ,
               animation_asset |-> row.animation_asset,
               raw_notes_type |-> row.raw_notes_type,
               raw_notes_text |-> row.raw_notes_text,
               raw_notes_file_url |-> row.raw_notes_file_url,
               created_at |-> parse_supabase_datetime(row.created_at)]]

\* SummaryResponse(...) of a row: pydantic rejects a diagnoses list that holds
\* anything but strings
SummaryResponse(row) ==
    LET d == row.diagnoses
    IN  [valid |-> \A i \in 1..Len(d) : IsStr(d[i]),
         body |-> [summary_id |-> row.summary_id,
                   patient_id |-> row.patient_id,
                   patient_name |-> row.patient_name,
                   summary_text |-> row.summary_text,
                   diagnoses |-> d,
                   affected_system |-> row.affected_system,
                   affected_organ |-> row.affected_organ,
                   animation_asset |-> row.animation_asset,
                   raw_notes_type |-> row.raw_notes_type,
                   raw_notes_text |-> row.raw_notes_text,
                   raw_notes_file_url |-> row.raw_notes_file_url,
                   created_at |-> parse_supabase_datetime(row.created_at)]]

\* SummaryListItem(...) of a selected row
SummaryListItem(row) ==
    [summary_id |-> row.summary_id,
     patient_name |-> row.patient_name,
     summary_text |-> row.summary_text,
     affected_organ |-> row.affected_organ,
     animation_asset |-> row.animation_asset,
     created_at |-> parse_supabase_datetime(row.created_at)]

\* raise HTTPException(status_code, detail)
HTTPException(status_code, detail) == [status |-> status_code, detail |-> detail]

----------------------------------------------------------------------------
(* POST /summaries *)

\* what a handler leaves behind: the response, the table and the bucket
\* after it, the upstream calls it made and the rules it evaluated
Outcome(r, tbl, sto, cs, ev) ==
    [resp |-> r, table |-> tbl, storage |-> sto, calls |-> cs, evaluated |-> ev]

\* the check of the three required fields: the detail of the first that is
\* empty after strip(), or NONE
RequiredFieldError(form) ==
    IF ~Truthy(form.patient_id) \/ Strip(form.patient_id) = ""
        THEN "patient_id is required"
    ELSE IF ~Truthy(form.patient_name) \/ Strip(form.patient_name) = ""
        THEN "patient_name is required"
    ELSE IF ~Truthy(form.summary_text) \/ Strip(form.summary_text) = ""
        THEN "summary_text is required"
    ELSE NONE

\* the dict the handler inserts
SummaryData(form, diagnoses_list, notes_type, raw_notes_file_url) ==
    [patient_id |-> form.patient_id,
     patient_name |-> form.patient_name,
     summary_text |-> form.summary_text,
     diagnoses |-> diagnoses_list,
     affected_system |-> form.affected_system,
     affected_organ |-> form.affected_organ,
     animation_asset |-> form.animation_asset,
     raw_notes_type |-> notes_type,
     raw_notes_text |-> form.raw_notes_text,
     raw_notes_file_url |-> raw_notes_file_url]

\* from the insert to the response; cs, ev: the calls and rules so far
InsertAndRespond(form, env, tbl, sto, diagnoses_list, notes_type, url, cs, ev) ==
    LET summary_data == SummaryData(form, diagnoses_list, notes_type, url)
        ins == DbInsert(tbl, summary_data, env.now)
        out == SummaryResponse(ins.data[1])
    IN  IF env.insert = "error"
        THEN Outcome(HTTPException(HTTP_500, "Error creating summary: datastore error"),
                     tbl, sto, Append(cs, "table.insert:error"), ev)
        ELSE IF env.insert = "empty"
        THEN Outcome(HTTPException(HTTP_500, "Failed to create summary in database"),
                     tbl, sto, Append(cs, "table.insert:empty"), ev)
        ELSE IF ~out.valid
        THEN Outcome(HTTPException(HTTP_500, "Error creating summary: validation error"),
                     ins.table, sto, Append(cs, "table.insert:ok"), ev)
        ELSE Outcome([status |-> HTTP_201, body |-> out.body],
                     ins.table, sto, Append(cs, "table.insert:ok"), ev)

\* UploadAndInsert going on to the insert after a failed upload
UploadAndInsertIgnoreFailure(form, env, tbl, sto, diagnoses_list, ev) ==
    LET notes_type == determine_notes_type(form.raw_notes_text, form.raw_notes_file)
        file == form.raw_notes_file
        up == upload_pdf_to_supabase(sto, file, form.patient_id, env.upload_ok)
    IN  IF ~file.present
        THEN InsertAndRespond(form, env, tbl, sto, diagnoses_list, notes_type,
                              NONE, <<>>, ev)
        ELSE IF ~EndsWith(file.filename, DotPdf)
        THEN Outcome(HTTPException(HTTP_400, "Only PDF files are allowed for raw_notes_file"),
                     tbl, sto, <<>>, Append(ev, "pdf"))
        ELSE InsertAndRespond(form, env, tbl, up.storage, diagnoses_list, notes_type,
                              up.url,
                              IF up.raised THEN <<"storage.upload:error">>
                              ELSE <<"storage.upload:ok">>,
                              Append(ev, "pdf"))

\* from the file check on
UploadAndInsert(form, env, tbl, sto, diagnoses_list, ev) ==
    LET notes_type == determine_notes_type(form.raw_notes_text, form.raw_notes_file)
        file == form.raw_notes_file
        up == upload_pdf_to_supabase(sto, file, form.patient_id, env.upload_ok)
    IN  IF ~file.present
        THEN InsertAndRespond(form, env, tbl, sto, diagnoses_list, notes_type,
                              NONE, <<>>, ev)
        ELSE IF ~EndsWith(file.filename, DotPdf)
        THEN Outcome(HTTPException(HTTP_400, "Only PDF files are allowed for raw_notes_file"),
                     tbl, sto, <<>>, Append(ev, "pdf"))
        ELSE IF up.raised
        THEN Outcome(HTTPException(HTTP_500, up.detail),
                     tbl, sto, <<"storage.upload:error">>, Append(ev, "pdf"))
        ELSE InsertAndRespond(form, env, tbl, up.storage, diagnoses_list, notes_type,
                              up.url, <<"storage.upload:ok">>, Append(ev, "pdf"))

\* ValidateInputs with the exclusivity check ahead of the required fields
ValidateInputsExclusiveFirst(form, env, tbl, sto, diagnoses_list, ev) ==
    LET missing == RequiredFieldError(form)
    IN  IF Truthy(form.raw_notes_text) /\ form.raw_notes_file.present
        THEN Outcome(HTTPException(HTTP_400,
                        "Cannot provide both raw_notes_text and raw_notes_file. Choose one."),
                     tbl, sto, <<>>, Append(ev, "exclusive"))
        ELSE IF missing # NONE
        THEN Outcome(HTTPException(HTTP_400, missing), tbl, sto, <<>>,
                     ev \o <<"exclusive", "required">>)
        ELSE UploadAndInsert(form, env, tbl, sto, diagnoses_list,
                             ev \o <<"exclusive", "required">>)

\* ValidateInputs without its exclusivity check
ValidateInputsNoExclusive(form, env, tbl, sto, diagnoses_list, ev) ==
    LET missing == RequiredFieldError(form)
    IN  IF missing # NONE
        THEN Outcome(HTTPException(HTTP_400, missing), tbl, sto, <<>>,
                     Append(ev, "required"))
        ELSE UploadAndInsert(form, env, tbl, sto, diagnoses_list,
                             ev \o <<"required", "exclusive">>)

\* the required-field and the exclusivity checks
ValidateInputs(form, env, tbl, sto, diagnoses_list, ev) ==
    LET missing == RequiredFieldError(form)
    IN  IF missing # NONE
        THEN Outcome(HTTPException(HTTP_400, missing), tbl, sto, <<>>,
                     Append(ev, "required"))
        ELSE IF Truthy(form.raw_notes_text) /\ form.raw_notes_file.present
        THEN Outcome(HTTPException(HTTP_400,
                        "Cannot provide both raw_notes_text and raw_notes_file. Choose one."),
                     tbl, sto, <<>>, ev \o <<"required", "exclusive">>)
        ELSE UploadAndInsert(form, env, tbl, sto, diagnoses_list,
                             ev \o <<"required", "exclusive">>)

\* create_summary(...): form holds the arguments FastAPI bound, env what the
\* upstream services do during this request
create_summary(form, env, tbl, sto) ==
    LET parsed == IF form.diagnoses # <<>> THEN JsonLoads(form.diagnoses)
                  ELSE [kind |-> "list", items |-> <<>>]
    IN  IF parsed.kind = "error"
        THEN Outcome(HTTPException(HTTP_400,
                        "Invalid JSON format for diagnoses field. Expected JSON array."),
                     tbl, sto, <<>>, <<"diagnoses">>)
        ELSE IF parsed.kind # "list"
        THEN \* ValueError: caught by the handler's last except clause
             Outcome(HTTPException(HTTP_500,
                        "Error creating summary: Diagnoses must be a JSON array"),
                     tbl, sto, <<>>, <<"diagnoses">>)
        ELSE ValidateInputs(form, env, tbl, sto, parsed.items, <<"diagnoses">>)

----------------------------------------------------------------------------
(* The arguments FastAPI binds before a handler runs *)

RequiredFormFields == {"patient_id", "patient_name", "summary_text"}

\* a Form field that is absent or empty counts as not sent
NotSent(v) == v = NONE \/ v = ""

\* Form(None): the default for a field that was not sent
OptionalForm(v) == IF NotSent(v) THEN NONE ELSE v

\* the answer to a request whose parameters fail their declaration
RequestValidationError(loc) ==
    [status |-> HTTP_422, detail |-> "Request validation failed", loc |-> loc]

\* the parameters of create_summary, with an empty raw_notes_text handed on
\* as it was sent
BindCreateKeepEmpty(r) ==
    LET missing == {f \in RequiredFormFields : NotSent(r[f])}
    IN  [ok |-> missing = {},
         error |-> RequestValidationError(missing),
         form |-> [patient_id |-> r.patient_id,
                   patient_name |-> r.patient_name,
                   summary_text |-> r.summary_text,
                   diagnoses |-> IF r.diagnoses = <<>> THEN <<"[", "]">> ELSE r.diagnoses,
                   affected_system |-> OptionalForm(r.affected_system),
                   affected_organ |-> OptionalForm(r.affected_organ),
                   animation_asset |-> OptionalForm(r.animation_asset),
                   raw_notes_text |-> r.raw_notes_text,
                   raw_notes_file |-> r.raw_notes_file]]

\* the parameters of create_summary: Form(...) is required, diagnoses defaults
\* to "[]", the others to None
BindCreate(r) ==
    LET missing == {f \in RequiredFormFields : NotSent(r[f])}
    IN  [ok |-> missing = {},
         error |-> RequestValidationError(missing),
         form |-> [patient_id |-> r.patient_id,
                   patient_name |-> r.patient_name,
                   summary_text |-> r.summary_text,
                   diagnoses |-> IF r.diagnoses = <<>> THEN <<"[", "]">> ELSE r.diagnoses,
                   affected_system |-> OptionalForm(r.affected_system),
                   affected_organ |-> OptionalForm(r.affected_organ),
                   animation_asset |-> OptionalForm(r.animation_asset),
                   raw_notes_text |-> OptionalForm(r.raw_notes_text),
                   raw_notes_file |-> r.raw_notes_file]]

\* the limit parameter declared without its upper bound
BindLimitNoUpper(q) ==
    IF q = <<>> THEN [ok |-> TRUE, limit |-> LimitDefault]
    ELSE [ok |-> q[1] >= LimitMin, limit |-> q[1]]

\* limit: int = Query(default=100, ge=1, le=1000); q: the values of the query
\* parameter, none when it was not sent
BindLimit(q) ==
    IF q = <<>> THEN [ok |-> TRUE, limit |-> LimitDefault]
    ELSE [ok |-> q[1] >= LimitMin /\ q[1] <= LimitMax, limit |-> q[1]]

----------------------------------------------------------------------------
(* The GET handlers *)

\* .order("created_at", desc=True): the orders the datastore may return rows
\* in; rows of the same instant come in either order
OrderByCreatedAtDesc(rows) ==
    LET n == Len(rows)
        perms == {p \in [1..n -> 1..n] : \A i, j \in 1..n : i # j => p[i] # p[j]}
        sorted == {p \in perms : \A i \in 1..(n - 1) :
                      rows[p[i]].created_at.instant >= rows[p[i + 1]].created_at.instant}
    IN  {[i \in 1..n |-> rows[p[i]]] : p \in sorted}

\* a limit that keeps the last n rows of the order
DbLimitTail(rows, n) ==
    IF Len(rows) <= n THEN rows ELSE SubSeq(rows, Len(rows) - n + 1, Len(rows))

\* .limit(n)
DbLimit(rows, n) == IF Len(rows) <= n THEN rows ELSE SubSeq(rows, 1, n)

\* [SummaryListItem(...) for item in response.data]
ListItems(rows) == [i \in 1..Len(rows) |-> SummaryListItem(rows[i])]

\* the answer of a list handler; ordered: the rows as the datastore returned them
ListResponse(ordered, db_ok, what) ==
    IF ~db_ok
    THEN Outcome(HTTPException(HTTP_500, "Error fetching " \o what \o ": datastore error"),
                 table, storage, <<"table.select:error">>, <<>>)
    ELSE Outcome([status |-> HTTP_200, body |-> ListItems(ordered)],
                 table, storage, <<"table.select:ok">>, <<>>)

\* the selection of get_summaries_by_patient without its eq filter
ByPatientRowsUnfiltered(tbl, patient_id) == tbl

\* get_summaries_by_patient: the rows it selects
ByPatientRows(tbl, patient_id) == DbSelectEq(tbl, "patient_id", patient_id)

\* a calendar date of the year the model covers, as (month, day)
DaysInMonth == <<31, 28, 31, 30, 31, 30, 31, 31, 30, 31, 30, 31>>

\* datetime.strptime(date, "%Y-%m-%d") accepts it
IsCalendarDate(d) ==
    /\ Len(d) = 2
    /\ d[1] \in 1..12
    /\ d[2] \in 1..DaysInMonth[d[1]]

RECURSIVE DaysBefore(_)
DaysBefore(month) == IF month = 1 THEN 0 ELSE DaysInMonth[month - 1] + DaysBefore(month - 1)

DayOfYear(d) == DaysBefore(d[1]) + d[2]

\* the date of the datastore's instant 0
EpochDate == <<2, 28>>

\* datetime.combine(target_date, datetime.min.time()) and max.time(), as instants
StartOfDay(d) == (DayOfYear(d) - DayOfYear(EpochDate)) * TicksPerDay
\* the end of the day taken one instant early (23:59:59 without its fraction)
EndOfDayEarly(d) == StartOfDay(d) + TicksPerDay - 2

EndOfDay(d) == StartOfDay(d) + TicksPerDay - 1

\* .gte("created_at", start_iso).lte("created_at", end_iso)
ByDateRows(tbl, d) ==
    SelectSeq(tbl, LAMBDA r : /\ r.created_at.instant >= StartOfDay(d)
                              /\ r.created_at.instant <= EndOfDay(d))

\* get_summary_by_id(summary_id)
get_summary_by_id(summary_id, db_ok, tbl, sto) ==
    LET got == DbSingle(DbSelectEq(tbl, "summary_id", summary_id))
        out == SummaryResponse(got.data[1])
    IN  IF ~db_ok
        THEN Outcome(HTTPException(HTTP_500, "Error fetching summary: datastore error"),
                     tbl, sto, <<"table.select:error">>, <<>>)
        ELSE IF got.raised
        THEN Outcome(HTTPException(HTTP_500, "Error fetching summary: no rows returned"),
                     tbl, sto, <<"table.select:raised">>, <<>>)
        ELSE IF got.data = <<>>
        THEN Outcome(HTTPException(HTTP_404,
                        "Summary with ID " \o summary_id \o " not found"),
                     tbl, sto, <<"table.select:ok">>, <<>>)
        ELSE IF ~out.valid
        THEN Outcome(HTTPException(HTTP_500, "Error fetching summary: validation error"),
                     tbl, sto, <<"table.select:ok">>, <<>>)
        ELSE Outcome([status |-> HTTP_200, body |-> out.body],
                     tbl, sto, <<"table.select:ok">>, <<>>)

----------------------------------------------------------------------------
(* The requests of the model *)

PatientIds == {"p1", "p2"}

PdfFile == [present |-> TRUE, filename |-> <<"n", ".", "p", "d", "f">>]
TxtFile == [present |-> TRUE, filename |-> <<"n", ".", "t", "x", "t">>]
NoFile == [present |-> FALSE, filename |-> <<>>]

DiagnosesAB == <<"[", "A", ",", "B", "]">>
DiagnosesNull == <<"[", "null", "]">>
DiagnosesDict == <<"{", "}">>
DiagnosesNotJson == <<"not", "json">>

\* the multipart form of a POST /summaries; x: the three optional
\* classification fields, sent with one value or not at all
CreateForm(p, n, s, d, x, t, f) ==
    [patient_id |-> p, patient_name |-> n, summary_text |-> s, diagnoses |-> d,
     affected_system |-> x, affected_organ |-> x, animation_asset |-> x,
     raw_notes_text |-> t, raw_notes_file |-> f]

\* the forms the whole-service specification posts: one of each kind of
\* notes, two patients, and a rejected form
ServiceForms ==
    {CreateForm("p1", "Ann", "ok", DiagnosesAB, NONE, "", NoFile),
     CreateForm("p1", "Ann", "ok", DiagnosesAB, NONE, "foo", NoFile),
     CreateForm("p2", "Bob", "ok", <<>>, "heart", NONE, PdfFile),
     CreateForm("p2", "Bob", "ok", DiagnosesNull, NONE, NONE, NoFile),
     CreateForm("p1", "Ann", "ok", DiagnosesAB, NONE, "foo", PdfFile)}

\* the forms the create specification posts: every combination of kept and
\* broken rules
GridForms ==
    {CreateForm(p, n, s, d, NONE, t, f) :
        p \in {"p1", " ", NONE}, n \in {"Ann", " "}, s \in {"ok", " "},
        d \in {DiagnosesAB, DiagnosesDict, DiagnosesNotJson},
        t \in {NONE, "foo"}, f \in {NoFile, PdfFile, TxtFile}}

\* what the upstream services do during one request
Envs(tbl) ==
    [upload_ok : BOOLEAN, insert : {"ok", "error", "empty"}, now : NowChoices(tbl)]

SummaryIds == {ToString(i) : i \in 1..(MaxRows + 1)}
PatientPaths == PatientIds \cup {"p3"}
DateQueries == {<<2, 28>>, <<3, 1>>, <<2, 30>>, <<28>>}
LimitQueries == {<<>>, <<0>>, <<1>>, <<2>>, <<LimitMax + 1>>}

----------------------------------------------------------------------------
(* The specification *)

Init ==
    /\ table = <<>>
    /\ storage = {}
    /\ req = [op |-> "none"]
    /\ resp = [status |-> 0]
    /\ calls = <<>>
    /\ evaluated = <<>>
    /\ returned = <<>>

\* no request is being answered
Idle == req.op = "none"

\* the state after a handler that left outcome o
Respond(r, o) ==
    /\ Idle
    /\ req' = r
    /\ resp' = o.resp
    /\ table' = o.table
    /\ storage' = o.storage
    /\ calls' = o.calls
    /\ evaluated' = o.evaluated
    /\ returned' = IF o.resp.status = HTTP_201
                   THEN (o.resp.body.summary_id :> o.resp.body) @@ returned
                   ELSE returned

\* POST /summaries with form r
Post(r, env) ==
    LET b == BindCreate(r)
    IN  Respond([op |-> "create", form |-> r],
                IF b.ok THEN create_summary(b.form, env, table, storage)
                ELSE Outcome(b.error, table, storage, <<>>, <<>>))

\* the table and the bucket have room for what a create may add
HasRoom == Len(table) < MaxRows /\ Cardinality(storage) < MaxRows

Create ==
    /\ HasRoom
    /\ \E r \in ServiceForms, env \in Envs(table) : Post(r, env)

CreateGrid ==
    /\ HasRoom
    /\ \E r \in GridForms, env \in Envs(table) : Post(r, env)

GetById ==
    \E id \in SummaryIds, db_ok \in BOOLEAN :
        Respond([op |-> "getById", summary_id |-> id],
                get_summary_by_id(id, db_ok, table, storage))

ListByPatient ==
    \E p \in PatientPaths, db_ok \in BOOLEAN :
        \E ordered \in OrderByCreatedAtDesc(ByPatientRows(table, p)) :
            Respond([op |-> "listByPatient", patient_id |-> p],
                    ListResponse(ordered, db_ok, "summaries"))

ListByDate ==
    \E d \in DateQueries, db_ok \in BOOLEAN :
        IF ~IsCalendarDate(d)
        THEN Respond([op |-> "listByDate", date |-> d],
                     Outcome(HTTPException(HTTP_400, "Invalid date format. Use YYYY-MM-DD"),
                             table, storage, <<>>, <<>>))
        ELSE \E ordered \in OrderByCreatedAtDesc(ByDateRows(table, d)) :
                Respond([op |-> "listByDate", date |-> d],
                        ListResponse(ordered, db_ok, "summaries by date"))

ListAll ==
    \E limit \in LimitQueries, db_ok \in BOOLEAN :
        LET b == BindLimit(limit)
        IN  IF ~b.ok
            THEN Respond([op |-> "listAll", limit |-> limit],
                         Outcome(RequestValidationError({"limit"}),
                                 table, storage, <<>>, <<>>))
            ELSE \E ordered \in OrderByCreatedAtDesc(table) :
                    Respond([op |-> "listAll", limit |-> limit],
                            ListResponse(DbLimit(ordered, b.limit), db_ok, "all summaries"))

HealthCheck ==
    Respond([op |-> "health"],
            Outcome([status |-> HTTP_200,
                     body |-> [status |-> "healthy",
                               service |-> "Medora Clinical Summary API"]],
                    table, storage, <<>>, <<>>))

\* the response goes out: the service waits for the next request
Deliver ==
    /\ ~Idle
    /\ req' = [op |-> "none"]
    /\ resp' = [status |-> 0]
    /\ calls' = <<>>
    /\ evaluated' = <<>>
    /\ UNCHANGED <<table, storage, returned>>

Next ==
    \/ Deliver
    \/ Create
    \/ GetById
    \/ ListByPatient
    \/ ListByDate
    \/ ListAll
    \/ HealthCheck

Spec == Init /\ [][Next]_vars

\* POST /summaries alone, on the grid of forms
CreateNext ==
    \/ Deliver
    \/ CreateGrid

CreateSpec == Init /\ [][CreateNext]_vars

----------------------------------------------------------------------------
(* Vocabulary of the properties *)

IsCreate == req.op = "create"

\* the form sends a non-empty raw_notes_text / a file
SendsText(f) == f.raw_notes_text # NONE /\ f.raw_notes_text # ""
SendsFile(f) == f.raw_notes_file.present

\* every required field of the form is sent and not empty
SendsRequired(f) == \A k \in RequiredFormFields : f[k] # NONE /\ f[k] # ""

\* the diagnoses text of the form ("[]" when it sends none) is a JSON array
DiagnosesIsArray(f) ==
    f.diagnoses = <<>> \/ JsonLoads(f.diagnoses).kind = "list"

\* some required field is missing or blank
RequiredBroken(f) ==
    \E k \in RequiredFormFields : f[k] \in {NONE, "", " "}

\* the rule a form breaks first, in the order the specification gives
RuleOrder == <<"diagnoses", "required", "exclusive", "pdf">>

FirstBroken(f) ==
    IF ~DiagnosesIsArray(f) THEN 1
    ELSE IF RequiredBroken(f) THEN 2
    ELSE IF SendsText(f) /\ SendsFile(f) THEN 3
    ELSE IF SendsFile(f) /\ ~EndsWith(f.raw_notes_file.filename, DotPdf) THEN 4
    ELSE 0

\* the rule an error response reports, 0 when it reports none
RuleReported(r) ==
    IF r.status = HTTP_201 THEN 0
    ELSE IF r.status = HTTP_422 THEN 2
    ELSE IF r.detail \in {"Invalid JSON format for diagnoses field. Expected JSON array.",
                          "Error creating summary: Diagnoses must be a JSON array"} THEN 1
    ELSE IF r.detail \in {"patient_id is required", "patient_name is required",
                          "summary_text is required"} THEN 2
    ELSE IF r.detail = "Cannot provide both raw_notes_text and raw_notes_file. Choose one."
         THEN 3
    ELSE IF r.detail = "Only PDF files are allowed for raw_notes_file" THEN 4
    ELSE 0

\* the rules evaluated are exactly the first n of the order
EvaluatedUpTo(n) == evaluated = SubSeq(RuleOrder, 1, n)

\* the rows of the table with this summary_id
RowsWithId(id) == {i \in 1..Len(table) : table[i].summary_id = id}

----------------------------------------------------------------------------
(* C1 *)

ExclusiveDetail == "Cannot provide both raw_notes_text and raw_notes_file. Choose one."

\* C1, as stated: a create that sends both a non-empty raw_notes_text and a
\* file is answered 400, and makes no upload and no insert.
C1_BothAnswered400 ==
    (IsCreate /\ SendsText(req.form) /\ SendsFile(req.form))
        => (resp.status = HTTP_400 /\ calls = <<>>)

\* C1, amended: a create that sends both a non-empty raw_notes_text and a
\* file is never accepted and leaves the table and the bucket as they were,
\* making no upstream call; when exclusivity is the first rule it breaks, the
\* answer is the 400 of that rule.
C1_BothRejected ==
    [][(req'.op = "create" /\ SendsText(req'.form) /\ SendsFile(req'.form))
        => /\ resp'.status \in {HTTP_400, HTTP_422, HTTP_500}
           /\ table' = table
           /\ storage' = storage
           /\ calls' = <<>>
           /\ FirstBroken(req'.form) = 3
                => (resp'.status = HTTP_400 /\ resp'.detail = ExclusiveDetail)]_vars

\* a form with text and a .pdf file, nothing else wrong, was answered 400
C1_Witness ==
    /\ IsCreate
    /\ SendsText(req.form) /\ SendsFile(req.form)
    /\ FirstBroken(req.form) = 3
    /\ EndsWith(req.form.raw_notes_file.filename, DotPdf)
    /\ resp.status = HTTP_400
    /\ resp.detail = ExclusiveDetail

----------------------------------------------------------------------------
(* C2 *)

NotesTypes == {"text", "pdf", "none"}

\* the raw_notes_type the inputs of a form determine
ExpectedNotesType(f) ==
    IF SendsFile(f) THEN "pdf" ELSE IF SendsText(f) THEN "text" ELSE "none"

\* C2: after a create answered 201, the raw_notes_type of the returned record
\* and of the stored row is one of text, pdf, none, and it is the one the
\* inputs determine: pdf with a file, else text with a non-empty
\* raw_notes_text, else none.
C2_NotesTypeDerived ==
    (IsCreate /\ resp.status = HTTP_201)
        => /\ resp.body.raw_notes_type \in NotesTypes
           /\ resp.body.raw_notes_type = ExpectedNotesType(req.form)
           /\ RowsWithId(resp.body.summary_id) # {}
           /\ \A i \in RowsWithId(resp.body.summary_id) :
                table[i].raw_notes_type = ExpectedNotesType(req.form)

\* a create with a file was answered 201 with type pdf, after one of another type
C2_Witness ==
    /\ IsCreate
    /\ resp.status = HTTP_201
    /\ SendsFile(req.form)
    /\ resp.body.raw_notes_type = "pdf"
    /\ \E i \in 1..Len(table) : table[i].raw_notes_type = "none"

----------------------------------------------------------------------------
(* C3 *)

\* C3: a create whose diagnoses is not well-formed JSON, or is JSON but not an
\* array, is answered 400 (stated for the forms that send every required
\* field, which are the ones that reach the handler).
C3_BadDiagnoses400 ==
    (IsCreate /\ SendsRequired(req.form) /\ ~DiagnosesIsArray(req.form))
        => resp.status = HTTP_400

----------------------------------------------------------------------------
(* C4 *)

\* C4, as stated: when a form breaks several rules the error is the one of
\* the first rule broken, in the order diagnoses, required fields,
\* exclusivity, .pdf name, and no rule after that one is evaluated.
C4_FirstBrokenReported ==
    (IsCreate /\ FirstBroken(req.form) # 0)
        => /\ RuleReported(resp) = FirstBroken(req.form)
           /\ Len(evaluated) <= FirstBroken(req.form)

\* C4, amended: a form in which a required field is absent or empty is
\* answered 422 before any rule is evaluated; for every other form the rules
\* are evaluated in the order diagnoses, required fields (blank after
\* trimming), exclusivity, .pdf name, up to and including the first one
\* broken, and the error is that rule's.
C4_OrderAfterBinding ==
    IsCreate =>
        IF SendsRequired(req.form)
        THEN /\ RuleReported(resp) = FirstBroken(req.form)
             /\ FirstBroken(req.form) # 0 => EvaluatedUpTo(FirstBroken(req.form))
             /\ FirstBroken(req.form) = 0
                  => EvaluatedUpTo(IF SendsFile(req.form) THEN 4 ELSE 3)
        ELSE /\ resp.status = HTTP_422
             /\ evaluated = <<>>
             /\ calls = <<>>

\* a form that breaks the required, the exclusivity and the .pdf rule was
\* answered with the required-field error
C4_Witness ==
    /\ IsCreate
    /\ SendsRequired(req.form)
    /\ DiagnosesIsArray(req.form)
    /\ RequiredBroken(req.form)
    /\ SendsText(req.form) /\ SendsFile(req.form)
    /\ ~EndsWith(req.form.raw_notes_file.filename, DotPdf)
    /\ resp.status = HTTP_400
    /\ RuleReported(resp) = 2
    /\ evaluated = <<"diagnoses", "required">>

----------------------------------------------------------------------------
(* C5 *)

\* C5: getById of an id no row has is answered 404 with a message naming the
\* id (stated for the requests whose datastore call went through).
C5_MissingId404 ==
    (/\ req.op = "getById"
     /\ RowsWithId(req.summary_id) = {}
     /\ calls # <<"table.select:error">>)
        => /\ resp.status = HTTP_404
           /\ resp.detail = "Summary with ID " \o req.summary_id \o " not found"

----------------------------------------------------------------------------
(* C6 *)

\* C6: a create with diagnoses ["A","B"] answered 201 returns diagnoses A, B
\* in that order, and a getById of an id a create announced, when the
\* datastore answers, returns 200 with the very record that create returned,
\* whatever was created in between.
C6_RoundTrip ==
    /\ (IsCreate /\ resp.status = HTTP_201 /\ req.form.diagnoses = DiagnosesAB)
        => resp.body.diagnoses = <<"A", "B">>
    /\ (/\ req.op = "getById"
        /\ req.summary_id \in DOMAIN returned
        /\ calls = <<"table.select:ok">>)
        => /\ resp.status = HTTP_200
           /\ resp.body = returned[req.summary_id]

\* the first summary, created with ["A","B"], is fetched after a second create
C6_Witness ==
    /\ req.op = "getById"
    /\ req.summary_id = "1"
    /\ Len(table) = 2
    /\ resp.status = HTTP_200
    /\ resp.body.diagnoses = <<"A", "B">>
    /\ resp.body = returned["1"]

----------------------------------------------------------------------------
(* C7 *)

\* the limit was sent and lies outside [1, 1000]
LimitOutOfBounds(q) == q # <<>> /\ (q[1] < LimitMin \/ q[1] > LimitMax)

\* C7, as stated: listAll with a limit outside [1, 1000] is answered 400
\* before any datastore query.
C7_LimitAnswered400 ==
    (req.op = "listAll" /\ LimitOutOfBounds(req.limit))
        => (resp.status = HTTP_400 /\ calls = <<>>)

\* C7, amended: listAll with a limit outside [1, 1000] is rejected with 422,
\* the answer of the parameter validation, before any datastore query.
C7_LimitRejected ==
    (req.op = "listAll" /\ LimitOutOfBounds(req.limit))
        => (resp.status = HTTP_422 /\ calls = <<>>)

\* limit = 1001 was rejected with rows in the table
C7_Witness ==
    /\ req.op = "listAll"
    /\ req.limit = <<LimitMax + 1>>
    /\ resp.status = HTTP_422
    /\ Len(table) > 0

----------------------------------------------------------------------------
(* C8 *)

\* C8: in every row of the table raw_notes_file_url is set only when
\* raw_notes_type is pdf, and raw_notes_text only when it is text.
C8_NotesFieldsMatchType ==
    \A i \in 1..Len(table) :
        /\ table[i].raw_notes_file_url # NONE => table[i].raw_notes_type = "pdf"
        /\ table[i].raw_notes_text # NONE => table[i].raw_notes_type = "text"

\* the table holds a pdf row with its url and a row of type none created from
\* an empty raw_notes_text
C8_Witness ==
    /\ \E i \in 1..Len(table) :
          table[i].raw_notes_type = "pdf" /\ table[i].raw_notes_file_url # NONE
    /\ IsCreate
    /\ resp.status = HTTP_201
    /\ req.form.raw_notes_text = ""
    /\ resp.body.raw_notes_type = "none"

----------------------------------------------------------------------------
(* C9 *)

\* C9: no step changes or removes a row that is in the table, and only a
\* create adds one.
C9_RowsImmutable ==
    [][/\ Len(table') >= Len(table)
       /\ \A i \in 1..Len(table) : table'[i] = table[i]
       /\ table' # table => req'.op = "create"]_vars

\* two rows are stored and a list request has just been answered
C9_Witness ==
    /\ Len(table) = 2
    /\ req.op = "listAll"
    /\ resp.status = HTTP_200
    /\ Len(resp.body) = 2

----------------------------------------------------------------------------
(* C10 *)

IsUploadCall(c) == c \in {"storage.upload:ok", "storage.upload:error"}
IsInsertCall(c) == c \in {"table.insert:ok", "table.insert:error", "table.insert:empty"}

\* C10: a create that breaks no rule and carries a .pdf file calls the upload
\* before anything else; when the upload fails the answer is 500 and no
\* insert follows; no create calls the insert before the upload.
C10_UploadBeforeInsert ==
    IsCreate =>
        /\ (SendsRequired(req.form) /\ FirstBroken(req.form) = 0 /\ SendsFile(req.form))
            => (calls # <<>> /\ IsUploadCall(calls[1]))
        /\ (\E i \in 1..Len(calls) : calls[i] = "storage.upload:error")
            => /\ resp.status = HTTP_500
               /\ resp.detail = "Failed to upload PDF: storage error"
               /\ calls = <<"storage.upload:error">>
        /\ \A i, j \in 1..Len(calls) :
              (IsInsertCall(calls[i]) /\ IsUploadCall(calls[j])) => j < i

\* the upload of a .pdf file failed
C10_Witness ==
    /\ IsCreate
    /\ EndsWith(req.form.raw_notes_file.filename, DotPdf)
    /\ calls = <<"storage.upload:error">>
    /\ resp.status = HTTP_500

----------------------------------------------------------------------------
(* Vocabulary of the list properties *)

IsListOp == req.op \in {"listByPatient", "listByDate", "listAll"}

\* the datastore answered the query of the request
Answered == calls = <<"table.select:ok">>

\* the summary_ids of the items of a list body, and of a set of rows
ItemIds(body) == {body[k].summary_id : k \in 1..Len(body)}
RowIds(rows) == {table[i].summary_id : i \in rows}

\* the body holds one item for each row of the set and nothing else
ListsExactly(body, rows) ==
    /\ Len(body) = Cardinality(rows)
    /\ ItemIds(body) = RowIds(rows)

\* created_at never increases along the body
NonIncreasing(body) ==
    \A k \in 1..(Len(body) - 1) :
        body[k].created_at.instant >= body[k + 1].created_at.instant

\* the calendar day, counted from the day of instant 0, of an instant and of
\* a date
DayOfInstant(t) == t \div TicksPerDay
DayOfDate(d) == DayOfYear(d) - DayOfYear(EpochDate)

\* the rows created on date d (UTC)
RowsOnDate(d) ==
    {i \in 1..Len(table) : DayOfInstant(table[i].created_at.instant) = DayOfDate(d)}

----------------------------------------------------------------------------
(* C11 *)

\* C11: listByDate(d) for a calendar date d, when the datastore answers,
\* returns 200 with exactly the summaries whose created_at lies on day d in
\* UTC, from its first instant to its last inclusive, ordered by created_at
\* non-increasing.
C11_ByDateExact ==
    (req.op = "listByDate" /\ IsCalendarDate(req.date) /\ Answered)
        => /\ resp.status = HTTP_200
           /\ ListsExactly(resp.body, RowsOnDate(req.date))
           /\ NonIncreasing(resp.body)

\* the table holds a row stamped at the last instant of the day asked for and
\* one at the first instant of the next day; only the first is returned
C11_Witness ==
    /\ req.op = "listByDate"
    /\ req.date = EpochDate
    /\ Len(table) = 2
    /\ table[1].created_at.instant = TicksPerDay - 1
    /\ table[2].created_at.instant = TicksPerDay
    /\ resp.status = HTTP_200
    /\ ItemIds(resp.body) = {table[1].summary_id}

----------------------------------------------------------------------------
(* C12 *)

\* the rows of patient p
RowsOfPatient(p) == {i \in 1..Len(table) : table[i].patient_id = p}

\* C12: listByPatient(p), when the datastore answers, returns 200 with one
\* item for every stored summary of patient p and none of another patient,
\* ordered by created_at non-increasing; for a patient without summaries the
\* answer is 200 with the empty list.
C12_ByPatientExact ==
    (req.op = "listByPatient" /\ Answered)
        => /\ resp.status = HTTP_200
           /\ ListsExactly(resp.body, RowsOfPatient(req.patient_id))
           /\ NonIncreasing(resp.body)
           /\ RowsOfPatient(req.patient_id) = {} => resp.body = <<>>

\* the table holds a summary of each of two patients; the list of one of them
\* has one item
C12_Witness ==
    /\ req.op = "listByPatient"
    /\ Len(table) = 2
    /\ table[1].patient_id # table[2].patient_id
    /\ req.patient_id = table[2].patient_id
    /\ resp.status = HTTP_200
    /\ ItemIds(resp.body) = {table[2].summary_id}

----------------------------------------------------------------------------
(* C13 *)

\* the limit a listAll request asks for: 100 when it sends none
AskedLimit(q) == IF q = <<>> THEN LimitDefault ELSE q[1]

Min(a, b) == IF a <= b THEN a ELSE b

----------------------------------------------------------------------------
(* C14 *)

\* C14: a create that is answered with an error leaves the table as it was,
\* and the table changes only in a create that is answered 201.
C14_CreateAllOrNothing ==
    [][/\ (req'.op = "create" /\ resp'.status # HTTP_201) => table' = table
       /\ table' # table => (req'.op = "create" /\ resp'.status = HTTP_201)]_vars

====
